---- MODULE Spec2Model ----
(***************************************************************************)
(* datawelder: hash-partitioning of data frames into sorted shards and a   *)
(* streaming left-outer merge join over matching shards.                   *)
(*                                                                         *)
(* Python indices are kept 0-based in the data (key_index, shard numbers); *)
(* a TLA+ sequence is indexed with the Python index plus one.              *)
(***************************************************************************)
EXTENDS Integers, Sequences, FiniteSets, TLC

(***************************************************************************)
(* Bounds of the explored inputs.                                          *)
(***************************************************************************)
MaxKey == 3
MaxLen == 2
MaxRights == 2
MaxPartitions == 3
MaxRecords == 3
MaxSubs == 3
MaxSelect == 2
MaxClauses == 3
MaxWrites == 3
MaxChunk == 2
MinPartSize == 2
UPLOAD_ATTEMPTS == 10

\* payload values of the reader's records
Payloads == {7, 8}

\* Python's None, as a field value and as "no record"
None == -1
NoRecord == <<>>

\* no datawelder.yaml in the destination
NoManifest == [field_names |-> <<>>, key_index |-> 0, num_partitions |-> 0,
               config_format |-> 0]

VARIABLES
    \* ---- _join_partitions (join.py) ----
    partitions,     \* the argument list [L, R1, ..., R(k-1)]
    leftpart,       \* partitions.pop(0)
    rightparts,     \* what is left of the list after the pop
    peek,           \* peek[i]: lookahead record of right side i, or NoRecord
    rpos,           \* rpos[i]: records consumed from the iterator of right side i
    defaults,       \* defaults[i]: mkdefault(rightparts[i])
    lpos,           \* records consumed from the iterator of leftpart
    leftkey,
    joinedrecord,
    ri,             \* the inner loop's index i
    out,            \* the rows yielded so far
    jpc,            \* position of the generator
    \* ---- calculate_key (partition.py) ----
    hkeys,          \* the keys of the calls made, in call order
    hn,             \* num_partitions of those calls
    hresults,       \* the shard numbers returned so far
    \* ---- partition() (partition.py) ----
    reader,         \* the reader: field_names, key_index and the records it yields
    num_partitions,
    rd_pos,         \* records consumed from the reader
    streams,        \* streams[i]: state of the sink of shard i
    files,          \* files[i]: the records stored in the file of shard i
    wrote,
    manifest,       \* the content of datawelder.yaml, or NoManifest
    frame,          \* the PartitionedFrame loaded for the sort
    sort_idx,       \* the shard being sorted
    sort_records,   \* the sorted records sort_partition holds in memory
    ppc,            \* position in partition()
    \* ---- join() (join.py) ----
    jframes,        \* the frames argument
    jstores,        \* jstores[f][i]: the records in shard file i of frame f
    subs,
    output_format,
    fields,
    jobs,           \* jobs[i]: state of the work item of shard i
    temp,           \* the files in the temp directory, by path
    completed,      \* the shard numbers in the order their jobs returned
    destination,    \* the content of the destination
    dest_written,   \* the destination has been written
    temp_dir,       \* the temp directory: "none", "exists" or "removed"
    errors,         \* the shard numbers of the failed jobs, in order of failure
    raised,         \* the exception join() raised to its caller
    dpc,            \* position in join()
    \* ---- PartitionedFrame (partition.py) ----
    gframe,         \* a PartitionedFrame
    gcall,          \* the call of gframe[key]: its key
    gpart,          \* what the call returned or raised
    gselect,        \* the outcome of the last gframe.select(): "", "ok", "ValueError"
    gpc,
    \* ---- _select and _calculate_indices (join.py) ----
    frame_headers,  \* the field names of the frames
    squery,         \* the clauses _parse_select has yielded so far
    selected,
    used_aliases,
    sraised,        \* the exception raised, "" if none
    sresult,        \* the fields handed to join(): NoFields, or what _select returned
    slayout,        \* what _calculate_indices returned
    spc,
    \* ---- open_partitions and _update_soft_limit (partition.py) ----
    oplatform,      \* sys.platform
    onum,           \* the num_partitions argument
    rlimit,         \* the RLIMIT_NOFILE of the process: soft and hard
    old_soft_limit, \* the local of _update_soft_limit
    soft_before,    \* the soft limit before the scope was entered
    ostreams,       \* the sinks opened so far: "open" or "closed"
    opc,
    \* ---- LightweightWriter and _retry_if_failed (s3.py) ----
    wmode,          \* the writer is used in a with block ("with") or not ("plain")
    wbuf,           \* self._buf: the bytes in the temporary file
    mpid,           \* self._mpid
    etags,          \* self._etags
    wclosed,        \* self._closed
    total_bytes,
    total_parts,
    s3_upload,      \* the multipart upload: "none", "in_progress", "completed", "aborted"
    s3_parts,       \* the parts S3 holds, in upload order
    s3_partinfo,    \* the Parts of the completion request
    s3_object,      \* the stored object
    written,        \* every byte handed to write(), in order
    nwrites,        \* the number of write() calls
    ncloses,        \* the number of close() calls that returned
    ucaller,        \* who called _upload_next_part: "write" or "close"
    rcalls,         \* the outcomes of the calls of partial() in _retry_if_failed
    rstate,         \* _retry_if_failed: "", "running", "returned" or the exception raised
    woriginal,      \* the first exception raised in the writer or the body
    wraised,        \* the exception that reached the caller
    wpc

kvars == <<partitions, leftpart, rightparts, peek, rpos, defaults, lpos,
           leftkey, joinedrecord, ri, out, jpc>>
hvars == <<hkeys, hn, hresults>>

pvars == <<reader, num_partitions, rd_pos, streams, files, wrote, manifest, frame,
           sort_idx, sort_records, ppc>>

dvars == <<jframes, jstores, subs, output_format, fields, jobs, temp, completed,
           destination, dest_written, temp_dir, errors, raised, dpc>>

gvars == <<gframe, gcall, gpart, gselect, gpc>>

svars == <<frame_headers, squery, selected, used_aliases, sraised, sresult, slayout, spc>>

ovars == <<oplatform, onum, rlimit, old_soft_limit, soft_before, ostreams, opc>>

wvars == <<wmode, wbuf, mpid, etags, wclosed, total_bytes, total_parts, s3_upload,
           s3_parts, s3_partinfo, s3_object, written, nwrites, ncloses, ucaller,
           rcalls, rstate, woriginal, wraised, wpc>>

vars == <<kvars, hvars, pvars, dvars, gvars, svars, ovars, wvars>>

NotKernel == <<hvars, pvars, dvars, gvars, svars, ovars, wvars>>
NotHash == <<kvars, pvars, dvars, gvars, svars, ovars, wvars>>
NotPartition == <<kvars, hvars, dvars, gvars, svars, ovars, wvars>>
NotJoin == <<kvars, hvars, pvars, gvars, svars, ovars, wvars>>
NotFrame == <<kvars, hvars, pvars, dvars, svars, ovars, wvars>>
NotSelect == <<kvars, hvars, pvars, dvars, gvars, ovars, wvars>>
NotScope == <<kvars, hvars, pvars, dvars, gvars, svars, wvars>>
NotWriter == <<kvars, hvars, pvars, dvars, gvars, svars, ovars>>

(***************************************************************************)
(* Sequence helpers                                                        *)
(***************************************************************************)
Range(s) == {s[i] : i \in 1..Len(s)}

\* all sequences over S of length 0..n
SeqsUpTo(S, n) == UNION {[1..m -> S] : m \in 0..n}

RECURSIVE Concat(_)
Concat(ss) == IF ss = <<>> THEN <<>> ELSE Head(ss) \o Concat(Tail(ss))

(***************************************************************************)
(* In-memory partitions handed to the kernel.  A partition object has      *)
(* field_names, key_index and the records its iterator yields.             *)
(***************************************************************************)
Partition(names, keyindex, recs) ==
    [field_names |-> names, key_index |-> keyindex, records |-> recs]

\* the left side: (key, payload), key_index 0
LeftPartition(keys) ==
    Partition(<<"iso", "name">>, 0,
              [p \in 1..Len(keys) |-> <<keys[p], 100 + p>>])

\* right side j; side 1 is (payload, key) with key_index 1, the other
\* sides are (key, payload, payload) with key_index 0
RightPartition(j, keys) ==
    IF j = 1
    THEN Partition(<<"currency", "iso">>, 1,
                   [p \in 1..Len(keys) |-> <<100 * (j + 1) + p, keys[p]>>])
    ELSE Partition(<<"iso", "capital", "area">>, 0,
                   [p \in 1..Len(keys) |-> <<keys[p], 100 * (j + 1) + p, 100 * (j + 1) + p>>])

KeyOf(p, rec) == rec[p.key_index + 1]
KeysOf(p) == [n \in 1..Len(p.records) |-> KeyOf(p, p.records[n])]

IsSorted(keys) == \A a, b \in 1..Len(keys) : a < b => keys[a] <= keys[b]

\* mkdefault(p): one None per field name
mkdefault(p) == [n \in 1..Len(p.field_names) |-> None]

\* getnext(p): next(p), or None on StopIteration; pos counts consumed records
getnext(p, pos) ==
    IF pos < Len(p.records)
    THEN [rec |-> p.records[pos + 1], pos |-> pos + 1]
    ELSE [rec |-> NoRecord, pos |-> pos]

\* the peek is behind the left key also when its key equals it
PeekBehindOrEqual(rightpart, pk, lkey) ==
    pk # NoRecord /\ KeyOf(rightpart, pk) <= lkey

\* peek[i] is not None and peek[i][rightpart.key_index] < leftkey
PeekBehind(rightpart, pk, lkey) ==
    pk # NoRecord /\ KeyOf(rightpart, pk) < lkey

\* while peek[i] is not None and peek[i][rightpart.key_index] < leftkey:
\*     peek[i] = getnext(rightpart)
RECURSIVE AdvancePeek(_, _, _, _)
AdvancePeek(rightpart, pk, pos, lkey) ==
    IF PeekBehind(rightpart, pk, lkey)
    THEN AdvancePeek(rightpart, getnext(rightpart, pos).rec,
                     getnext(rightpart, pos).pos, lkey)
    ELSE [rec |-> pk, pos |-> pos]

\* if peek[i] is None: extend(defaults[i]) else: extend(peek[i])
Contribution(pk, dflt) == IF pk = NoRecord THEN dflt ELSE pk

\* the body of the loop over the right sides for side i: the new peek of the
\* side, the records consumed from it, and the extended joinedrecord, which
\* is the row yielded at the end of the body
RightIteration(rightpart, pk, pos, lkey, joined, dflt) ==
    LET adv == AdvancePeek(rightpart, pk, pos, lkey)
    IN [peek |-> adv.rec, pos |-> adv.pos, row |-> joined \o Contribution(adv.rec, dflt)]

\* the whole loop over the right sides for one left record, from side i on
RECURSIVE RightLoop(_, _, _, _, _, _, _)
RightLoop(rparts, i, pk, ps, lkey, joined, rows) ==
    IF i > Len(rparts) THEN [peek |-> pk, rpos |-> ps, rows |-> rows]
    ELSE LET it == RightIteration(rparts[i], pk[i], ps[i], lkey, joined,
                                  mkdefault(rparts[i]))
         IN RightLoop(rparts, i + 1, [pk EXCEPT ![i] = it.peek],
                      [ps EXCEPT ![i] = it.pos], lkey, it.row, Append(rows, it.row))

\* the loop over the left records, from the record after the first lp on
RECURSIVE LeftLoop(_, _, _, _, _, _)
LeftLoop(lpart, rparts, lp, pk, ps, rows) ==
    IF lp >= Len(lpart.records) THEN rows
    ELSE LET leftrecord == lpart.records[lp + 1]
             r == RightLoop(rparts, 1, pk, ps, KeyOf(lpart, leftrecord), leftrecord, rows)
         IN LeftLoop(lpart, rparts, lp + 1, r.peek, r.rpos, r.rows)

\* list(_join_partitions(parts)): every row the generator yields
JoinPartitionsRows(parts) ==
    LeftLoop(Head(parts), Tail(parts), 0,
             [i \in 1..(Len(parts) - 1) |-> getnext(parts[i + 1], 0).rec],
             [i \in 1..(Len(parts) - 1) |-> getnext(parts[i + 1], 0).pos],
             <<>>)

(***************************************************************************)
(* _join_partitions as a generator                                         *)
(***************************************************************************)
KernelStart ==
    /\ \E k \in 1..MaxRights :
       \E ks \in [0..k -> SeqsUpTo(1..MaxKey, MaxLen)] :
          partitions = [n \in 1..(k + 1) |->
                          IF n = 1 THEN LeftPartition(ks[0])
                          ELSE RightPartition(n - 1, ks[n - 1])]
    /\ leftpart = Partition(<<>>, 0, <<>>)
    /\ rightparts = <<>>
    /\ peek = <<>>
    /\ rpos = <<>>
    /\ defaults = <<>>
    /\ lpos = 0
    /\ leftkey = None
    /\ joinedrecord = <<>>
    /\ ri = 0
    /\ out = <<>>
    /\ jpc = "start"

\* leftpart = partitions.pop(0); peek = [...]; defaults = [...]
JoinBegin ==
    /\ jpc = "start"
    /\ leftpart' = Head(partitions)
    /\ rightparts' = Tail(partitions)
    /\ peek' = [i \in 1..(Len(partitions) - 1) |-> getnext(partitions[i + 1], 0).rec]
    /\ rpos' = [i \in 1..(Len(partitions) - 1) |-> getnext(partitions[i + 1], 0).pos]
    /\ defaults' = [i \in 1..(Len(partitions) - 1) |-> mkdefault(partitions[i + 1])]
    /\ jpc' = "loop"
    /\ UNCHANGED <<partitions, lpos, leftkey, joinedrecord, ri, out>>
    /\ UNCHANGED NotKernel

\* for leftrecord in leftpart: leftkey = ...; joinedrecord = list(leftrecord)
JoinNextLeft ==
    /\ jpc = "loop"
    /\ lpos < Len(leftpart.records)
    /\ lpos' = lpos + 1
    /\ leftkey' = KeyOf(leftpart, leftpart.records[lpos + 1])
    /\ joinedrecord' = leftpart.records[lpos + 1]
    /\ ri' = 0
    /\ jpc' = IF Len(rightparts) = 0 THEN "loop" ELSE "inner"
    /\ UNCHANGED <<partitions, leftpart, rightparts, peek, rpos, defaults, out>>
    /\ UNCHANGED NotKernel

\* one iteration of "for i, rightpart in enumerate(partitions)", up to and
\* including the yield that ends it
JoinRight ==
    /\ jpc = "inner"
    /\ LET i == ri + 1
           it == RightIteration(rightparts[i], peek[i], rpos[i], leftkey,
                                joinedrecord, defaults[i])
       IN /\ peek' = [peek EXCEPT ![i] = it.peek]
          /\ rpos' = [rpos EXCEPT ![i] = it.pos]
          /\ joinedrecord' = it.row
          /\ out' = Append(out, it.row)
    /\ ri' = ri + 1
    /\ jpc' = IF ri + 1 < Len(rightparts) THEN "inner" ELSE "loop"
    /\ UNCHANGED <<partitions, leftpart, rightparts, defaults, lpos, leftkey>>
    /\ UNCHANGED NotKernel

\* the left iterator is exhausted: the generator returns
JoinEnd ==
    /\ jpc = "loop"
    /\ lpos = Len(leftpart.records)
    /\ jpc' = "done"
    /\ UNCHANGED <<partitions, leftpart, rightparts, peek, rpos, defaults, lpos,
                   leftkey, joinedrecord, ri, out>>
    /\ UNCHANGED NotKernel

KernelNext == JoinBegin \/ JoinNextLeft \/ JoinRight \/ JoinEnd

KernelIdle ==
    /\ partitions = <<>>
    /\ leftpart = Partition(<<>>, 0, <<>>)
    /\ rightparts = <<>>
    /\ peek = <<>>
    /\ rpos = <<>>
    /\ defaults = <<>>
    /\ lpos = 0
    /\ leftkey = None
    /\ joinedrecord = <<>>
    /\ ri = 0
    /\ out = <<>>
    /\ jpc = "idle"

(***************************************************************************)
(* calculate_key: the shard number of a key                                *)
(*                                                                         *)
(* A key is a Python int or a Python str; a str is the sequence of its     *)
(* code points.                                                            *)
(***************************************************************************)
PyInt(n) == [kind |-> "int", n |-> n, s |-> <<>>]
PyStr(s) == [kind |-> "str", n |-> 0, s |-> s]

\* str(n) for an int: the decimal digits, with a minus sign when negative
RECURSIVE Digits(_)
Digits(n) == IF n < 10 THEN <<48 + n>> ELSE Append(Digits(n \div 10), 48 + (n % 10))

IntToStr(n) == IF n < 0 THEN <<45>> \o Digits(0 - n) ELSE Digits(n)

\* str(key)
Str(key) == IF key.kind = "int" THEN IntToStr(key.n) ELSE key.s

\* .encode('utf-8') of code points below 0x800
RECURSIVE Utf8(_)
Utf8(s) ==
    IF s = <<>> THEN <<>>
    ELSE (IF Head(s) < 128 THEN <<Head(s)>>
          ELSE <<192 + (Head(s) \div 64), 128 + (Head(s) % 64)>>) \o Utf8(Tail(s))

\* hashlib.md5: the 16 digest bytes of the byte strings the model hashes
Md5(bytes) ==
    CASE bytes = <<49>> ->              \* "1"
            <<196, 202, 66, 56, 160, 185, 35, 130, 13, 204, 80, 154, 111, 117, 132, 155>>
      [] bytes = <<50>> ->              \* "2"
            <<200, 30, 114, 141, 157, 76, 47, 99, 111, 6, 127, 137, 204, 20, 134, 44>>
      [] bytes = <<51>> ->              \* "3"
            <<236, 203, 200, 126, 75, 92, 226, 254, 40, 48, 143, 217, 242, 167, 186, 243>>
      [] bytes = <<52>> ->              \* "4"
            <<168, 127, 246, 121, 162, 243, 231, 29, 145, 129, 166, 123, 117, 66, 18, 44>>
      [] bytes = <<53>> ->              \* "5"
            <<228, 218, 59, 127, 187, 206, 35, 69, 215, 119, 43, 6, 116, 163, 24, 213>>
      [] bytes = <<49, 50, 51>> ->      \* "123"
            <<32, 44, 185, 98, 172, 89, 7, 91, 150, 75, 7, 21, 45, 35, 75, 112>>
      [] bytes = <<65, 85>> ->          \* "AU"
            <<108, 201, 139, 162, 4, 95, 228, 9, 141, 36, 53, 109, 20, 68, 112, 133>>
      [] bytes = <<74, 80>> ->          \* "JP"
            <<36, 210, 46, 3, 175, 178, 62, 219, 69, 198, 200, 207, 161, 106, 40, 14>>
      [] bytes = <<82, 85>> ->          \* "RU"
            <<249, 48, 140, 93, 5, 150, 80, 238, 64, 202, 179, 11, 173, 30, 150, 208>>
      [] bytes = <<195, 169>> ->        \* U+00E9
            <<102, 221, 205, 151, 207, 222, 171, 178, 246, 251, 138, 153, 155, 75, 199, 111>>
      [] bytes = <<104, 101, 108, 108, 111, 32, 119, 111, 114, 108, 100>> ->   \* "hello world"
            <<94, 182, 59, 187, 224, 30, 238, 208, 147, 203, 34, 187, 143, 90, 205, 195>>

\* .hexdigest(): two hexadecimal digits per byte
RECURSIVE HexDigest(_)
HexDigest(digest) ==
    IF digest = <<>> THEN <<>>
    ELSE <<Head(digest) \div 16, Head(digest) % 16>> \o HexDigest(Tail(digest))

\* int(hex, 16) % n, reduced digit by digit so that no value exceeds 16 * n
RECURSIVE HexMod(_, _, _)
HexMod(hex, acc, n) ==
    IF hex = <<>> THEN acc
    ELSE HexMod(Tail(hex), (acc * 16 + Head(hex)) % n, n)

\* a hash that depends on the type of the key, not only on its string form
calculate_key_typed(key, n) ==
    IF key.kind = "int" THEN key.n % n
    ELSE HexMod(HexDigest(Md5(Utf8(Str(key)))), 0, n)

calculate_key(key, n) == HexMod(HexDigest(Md5(Utf8(Str(key)))), 0, n)

\* the keys and shard counts of the explored calls
HashKeys ==
    {PyInt(k) : k \in 1..MaxKey} \cup {PyStr(IntToStr(k)) : k \in 1..MaxKey}
    \cup {PyInt(123), PyStr(<<49, 50, 51>>), PyStr(<<65, 85>>), PyStr(<<74, 80>>),
          PyStr(<<82, 85>>), PyStr(<<233>>),
          PyStr(<<104, 101, 108, 108, 111, 32, 119, 111, 114, 108, 100>>)}

ShardCounts == (1..MaxPartitions) \cup {5, 1000}

HashStart ==
    /\ hkeys \in [1..2 -> HashKeys]
    /\ hn \in ShardCounts
    /\ hresults = <<>>

HashIdle ==
    /\ hkeys = <<>>
    /\ hn = 1
    /\ hresults = <<>>

\* one call calculate_key(key, num_partitions); the calls may belong to
\* different frames or runs
CalculateKey ==
    /\ Len(hresults) < Len(hkeys)
    /\ hresults' = Append(hresults, calculate_key(hkeys[Len(hresults) + 1], hn))
    /\ UNCHANGED <<hkeys, hn>>
    /\ UNCHANGED NotHash

HashNext == CalculateKey

(***************************************************************************)
(* partition(): routing of the reader's records into shard files, the      *)
(* manifest, and the sort of every shard                                   *)
(***************************************************************************)
\* list.index(x), 0-based
IndexOf(seq, x) == (CHOOSE i \in 1..Len(seq) : seq[i] = x /\ \A j \in 1..(i - 1) : seq[j] # x) - 1

ReaderFieldNames == <<"iso", "name">>

\* a record of the reader's width with the key at key_index
FullRecord(kidx, key, payload) == IF kidx = 0 THEN <<key, payload>> ELSE <<payload, key>>

\* what the reader can yield: full records whose key is an int or None, and
\* rows that end before the key field
RecordPool(kidx) ==
    {FullRecord(kidx, k, p) : k \in (1..MaxKey) \cup {None}, p \in Payloads}
    \cup {[n \in 1..kidx |-> 7]}

\* PartitionedFrame properties
FrameFieldNames(fr) == fr.config.field_names
FrameKeyIndex(fr) == fr.config.key_index
FrameKeyName(fr) == FrameFieldNames(fr)[FrameKeyIndex(fr) + 1]
FrameLen(fr) == fr.config.num_partitions

\* PartitionedFrame.__init__: load the manifest
PartitionedFrame(config) == [config |-> config, selected_fields |-> config.field_names]

\* the key index of the stored records is taken for that of the projection
GetItemStoredKeyIndex(fr, key) ==
    IF key >= FrameLen(fr)
    THEN [error |-> "ValueError", path |-> 0, field_indices |-> <<>>,
          field_names |-> <<>>, key_index |-> 0]
    ELSE LET names == IF FrameKeyName(fr) \in Range(fr.selected_fields)
                      THEN fr.selected_fields
                      ELSE <<FrameKeyName(fr)>> \o fr.selected_fields
         IN [error |-> "",
             path |-> key,
             field_indices |-> [n \in 1..Len(names) |-> IndexOf(FrameFieldNames(fr), names[n])],
             field_names |-> names,
             key_index |-> FrameKeyIndex(fr)]

\* PartitionedFrame.__getitem__ for an int key
GetItem(fr, key) ==
    IF key >= FrameLen(fr)
    THEN [error |-> "ValueError", path |-> 0, field_indices |-> <<>>,
          field_names |-> <<>>, key_index |-> 0]
    ELSE LET names == IF FrameKeyName(fr) \in Range(fr.selected_fields)
                      THEN fr.selected_fields
                      ELSE <<FrameKeyName(fr)>> \o fr.selected_fields
         IN [error |-> "",
             path |-> key,
             field_indices |-> [n \in 1..Len(names) |-> IndexOf(FrameFieldNames(fr), names[n])],
             field_names |-> names,
             key_index |-> IndexOf(names, FrameKeyName(fr))]

\* Partition.__next__ over the whole file: the projection of every record
IterPartition(part, content) ==
    [n \in 1..Len(content) |->
        [m \in 1..Len(part.field_indices) |-> content[n][part.field_indices[m] + 1]]]

\* sorted(records, key=lambda r: r[key_index]): stable, ascending
RECURSIVE InsertSorted(_, _, _)
InsertSorted(r, sorted, kidx) ==
    IF sorted = <<>> THEN <<r>>
    ELSE IF r[kidx + 1] < Head(sorted)[kidx + 1]
         THEN <<r>> \o sorted
         ELSE <<Head(sorted)>> \o InsertSorted(r, Tail(sorted), kidx)

RECURSIVE SortedInto(_, _, _)
SortedInto(records, acc, kidx) ==
    IF records = <<>> THEN acc
    ELSE SortedInto(Tail(records), InsertSorted(Head(records), acc, kidx), kidx)

\* a sort that keeps one record per key
RECURSIVE SortedUnique(_, _)
SortedUnique(records, kidx) ==
    IF records = <<>> THEN <<>>
    ELSE LET rest == SortedUnique(Tail(records), kidx)
         IN IF \E n \in 1..Len(rest) : rest[n][kidx + 1] = Head(records)[kidx + 1]
            THEN rest
            ELSE InsertSorted(Head(records), rest, kidx)

\* a sort that leaves the records as they are
SortedNot(records, kidx) == records

Sorted(records, kidx) == SortedInto(records, <<>>, kidx)

\* the shard a record is dumped to, always the first
ShardOfFirst(key, n) == 0

\* partition_index = key_function(key, num_partitions)
ShardOf(key, n) == calculate_key(PyInt(key), n)

PartitionStart ==
    /\ \E kidx \in 0..1 :
       \E recs \in SeqsUpTo(RecordPool(kidx), MaxRecords) :
          reader = [field_names |-> ReaderFieldNames, key_index |-> kidx, records |-> recs]
    /\ num_partitions \in 1..MaxPartitions
    /\ rd_pos = 0
    /\ streams = <<>>
    /\ files = <<>>
    /\ wrote = 0
    /\ manifest = NoManifest
    /\ frame = PartitionedFrame(NoManifest)
    /\ sort_idx = 0
    /\ sort_records = <<>>
    /\ ppc = "start"

PartitionIdle ==
    /\ reader = [field_names |-> <<>>, key_index |-> 0, records |-> <<>>]
    /\ num_partitions = 1
    /\ rd_pos = 0
    /\ streams = <<>>
    /\ files = <<>>
    /\ wrote = 0
    /\ manifest = NoManifest
    /\ frame = PartitionedFrame(NoManifest)
    /\ sort_idx = 0
    /\ sort_records = <<>>
    /\ ppc = "idle"

ShardNumbers == 0..(num_partitions - 1)

\* with open_partitions(...) as partitions: every sink is opened for writing
OpenPartitions ==
    /\ ppc = "start"
    /\ streams' = [i \in ShardNumbers |-> "open"]
    /\ files' = [i \in ShardNumbers |-> <<>>]
    /\ ppc' = "loop"
    /\ UNCHANGED <<reader, num_partitions, rd_pos, wrote, manifest, frame,
                   sort_idx, sort_records>>
    /\ UNCHANGED NotPartition

\* record[reader.key_index] raises IndexError: log and continue
SkipRecord ==
    /\ ppc = "loop"
    /\ rd_pos < Len(reader.records)
    /\ Len(reader.records[rd_pos + 1]) <= reader.key_index
    /\ rd_pos' = rd_pos + 1
    /\ UNCHANGED <<reader, num_partitions, streams, files, wrote, manifest, frame,
                   sort_idx, sort_records, ppc>>
    /\ UNCHANGED NotPartition

\* assert key is not None fails: the AssertionError leaves partition()
AssertKeyFails ==
    /\ ppc = "loop"
    /\ rd_pos < Len(reader.records)
    /\ Len(reader.records[rd_pos + 1]) > reader.key_index
    /\ reader.records[rd_pos + 1][reader.key_index + 1] = None
    /\ rd_pos' = rd_pos + 1
    /\ ppc' = "aborted"
    /\ UNCHANGED <<reader, num_partitions, streams, files, wrote, manifest, frame,
                   sort_idx, sort_records>>
    /\ UNCHANGED NotPartition

\* pickle.dump(record, partitions[partition_index])
DumpRecord ==
    /\ ppc = "loop"
    /\ rd_pos < Len(reader.records)
    /\ Len(reader.records[rd_pos + 1]) > reader.key_index
    /\ reader.records[rd_pos + 1][reader.key_index + 1] # None
    /\ LET record == reader.records[rd_pos + 1]
           partition_index == ShardOf(record[reader.key_index + 1], num_partitions)
       IN files' = [files EXCEPT ![partition_index] = Append(@, record)]
    /\ rd_pos' = rd_pos + 1
    /\ wrote' = wrote + 1
    /\ UNCHANGED <<reader, num_partitions, streams, manifest, frame,
                   sort_idx, sort_records, ppc>>
    /\ UNCHANGED NotPartition

\* the reader is exhausted: the with block ends and closes every sink
ClosePartitions ==
    /\ ppc = "loop"
    /\ rd_pos = Len(reader.records)
    /\ streams' = [i \in ShardNumbers |-> "closed"]
    /\ ppc' = "manifest"
    /\ UNCHANGED <<reader, num_partitions, rd_pos, files, wrote, manifest, frame,
                   sort_idx, sort_records>>
    /\ UNCHANGED NotPartition

\* yaml.dump(config, fout)
WriteManifest ==
    /\ ppc = "manifest"
    /\ manifest' = [field_names |-> reader.field_names,
                    key_index |-> reader.key_index,
                    num_partitions |-> num_partitions,
                    config_format |-> 1]
    /\ ppc' = "load"
    /\ UNCHANGED <<reader, num_partitions, rd_pos, streams, files, wrote, frame,
                   sort_idx, sort_records>>
    /\ UNCHANGED NotPartition

\* frame = PartitionedFrame(destination_path)
LoadFrame ==
    /\ ppc = "load"
    /\ manifest.config_format = 1
    /\ frame' = PartitionedFrame(manifest)
    /\ sort_idx' = 0
    /\ ppc' = "sort"
    /\ UNCHANGED <<reader, num_partitions, rd_pos, streams, files, wrote, manifest,
                   sort_records>>
    /\ UNCHANGED NotPartition

\* sort_partition, first half: read and sort the records, then open the
\* path for writing, which empties the file
SortRead ==
    /\ ppc = "sort"
    /\ sort_idx < FrameLen(frame)
    /\ LET part == GetItem(frame, sort_idx)
       IN /\ sort_records' = Sorted(files[part.path], part.key_index)
          /\ files' = [files EXCEPT ![part.path] = <<>>]
    /\ ppc' = "sorting"
    /\ UNCHANGED <<reader, num_partitions, rd_pos, streams, wrote, manifest, frame,
                   sort_idx>>
    /\ UNCHANGED NotPartition

\* sort_partition, second half: dump the sorted records and close
SortWrite ==
    /\ ppc = "sorting"
    /\ files' = [files EXCEPT ![GetItem(frame, sort_idx).path] = sort_records]
    /\ sort_records' = <<>>
    /\ sort_idx' = sort_idx + 1
    /\ ppc' = "sort"
    /\ UNCHANGED <<reader, num_partitions, rd_pos, streams, wrote, manifest, frame>>
    /\ UNCHANGED NotPartition

\* return frame
PartitionReturn ==
    /\ ppc = "sort"
    /\ sort_idx = FrameLen(frame)
    /\ ppc' = "done"
    /\ UNCHANGED <<reader, num_partitions, rd_pos, streams, files, wrote, manifest,
                   frame, sort_idx, sort_records>>
    /\ UNCHANGED NotPartition

PartitionNext ==
    \/ OpenPartitions \/ SkipRecord \/ AssertKeyFails \/ DumpRecord
    \/ ClosePartitions \/ WriteManifest \/ LoadFrame \/ SortRead \/ SortWrite
    \/ PartitionReturn

(***************************************************************************)
(* join(): one join_partitions job per shard, then the concatenation of    *)
(* the temp files                                                          *)
(*                                                                         *)
(* A file is a sequence of chunks, one per written row.  A chunk keeps, in *)
(* "shard", the number of the job that wrote it; that field is not part of *)
(* the bytes.                                                              *)
(***************************************************************************)
PICKLE == "pickle"
JSON == "json"
CSV == "csv"

\* no selection: the fields argument is None
NoFields == <<>>

\* the ascending sequence of the elements of a set of integers
RECURSIVE SeqOfSet(_)
SeqOfSet(S) ==
    IF S = {} THEN <<>>
    ELSE LET m == CHOOSE x \in S : \A y \in S : x <= y
         IN <<m>> \o SeqOfSet(S \ {m})

\* the frames on disk: frame 0 is (iso, name) with key_index 0, the other
\* frames are (currency, iso) with key_index 1
JoinFrameConfig(f, n) ==
    [field_names |-> IF f = 0 THEN <<"iso", "name">> ELSE <<"currency", "iso">>,
     key_index |-> IF f = 0 THEN 0 ELSE 1,
     num_partitions |-> n,
     config_format |-> 1]

JoinFrameRecord(f, k) == IF f = 0 THEN <<k, 100 + k>> ELSE <<100 * (f + 1) + k, k>>

\* shard i of a frame that partition() made of one record per key
JoinFrameShard(f, keys, n, i) ==
    LET mine == SeqOfSet({k \in keys : calculate_key(PyInt(k), n) = i})
    IN [m \in 1..Len(mine) |-> JoinFrameRecord(f, mine[m])]

\* _calculate_indices
DefaultNames(frms) ==
    Concat([f \in 1..Len(frms) |->
              [m \in 1..Len(FrameFieldNames(frms[f])) |->
                  FrameFieldNames(frms[f])[m] \o "_" \o ToString(f - 1)]])

JoinedFields(frms) ==
    Concat([f \in 1..Len(frms) |->
              [m \in 1..Len(FrameFieldNames(frms[f])) |-> <<f - 1, m - 1>>]])

CalculateIndices(frms, selected_fields) ==
    IF selected_fields = NoFields
    THEN [indices |-> [m \in 1..Len(JoinedFields(frms)) |-> m - 1],
          names |-> DefaultNames(frms)]
    ELSE [indices |-> [m \in 1..Len(selected_fields) |->
                          IndexOf(JoinedFields(frms),
                                  <<selected_fields[m][1], selected_fields[m][2]>>)],
          names |-> [m \in 1..Len(selected_fields) |->
                          IF selected_fields[m][3] # ""
                          THEN selected_fields[m][3]
                          ELSE DefaultNames(frms)[
                                  IndexOf(JoinedFields(frms),
                                          <<selected_fields[m][1], selected_fields[m][2]>>) + 1]]]

\* open_writer: the writer class of an output format
open_writer(fmt) ==
    CASE fmt = PICKLE -> "PickleWriter"
      [] fmt = JSON -> "JsonWriter"
      [] fmt = CSV -> "CsvWriter"

\* the CsvWriter of every partition writes the header
WriterEnterAlways(cls, partition_num, field_names) ==
    IF cls = "CsvWriter"
    THEN <<[shard |-> partition_num, kind |-> "header", names |-> field_names,
            values |-> <<>>]>>
    ELSE <<>>

\* what a writer puts into its file when it is entered; write_header is
\* left at its default
WriterEnter(cls, partition_num, field_names) ==
    IF cls = "CsvWriter" /\ partition_num = 0
    THEN <<[shard |-> partition_num, kind |-> "header", names |-> field_names,
            values |-> <<>>]>>
    ELSE <<>>

\* what writer.write(record) appends: the whole record for PickleWriter,
\* the picked fields with their names for JsonWriter, the picked fields for
\* CsvWriter
WriterWrite(cls, partition_num, field_indices, field_names, record) ==
    IF cls = "PickleWriter"
    THEN [shard |-> partition_num, kind |-> cls, names |-> <<>>, values |-> record]
    ELSE [shard |-> partition_num, kind |-> cls,
          names |-> IF cls = "JsonWriter" THEN field_names ELSE <<>>,
          values |-> [m \in 1..Len(field_indices) |-> record[field_indices[m] + 1]]]

\* join_partitions: everything the job for partition_num writes to its output
JoinPartitions(partition_num, frms, stores, fmt, selected_fields) ==
    LET layout == CalculateIndices(frms, selected_fields)
        parts == [f \in 1..Len(frms) |->
                    LET part == GetItem(frms[f], partition_num)
                    IN Partition(part.field_names, part.key_index,
                                 IterPartition(part, stores[f][part.path]))]
        rows == JoinPartitionsRows(parts)
        writer == open_writer(fmt)
    IN WriterEnter(writer, partition_num, layout.names)
       \o [m \in 1..Len(rows) |->
              WriterWrite(writer, partition_num, layout.indices, layout.names, rows[m])]

\* every job writes to the same temp file
TempPathShared(i) == 0

\* temp_paths[i] = P.join(temp_dir, str(i))
TempPath(i) == i

\* the work items pair partition_num with the temp paths in reverse
GenerateWorkReversed(n) ==
    [i \in 0..(n - 1) |-> [partition_num |-> i, temp_path |-> TempPath(n - 1 - i)]]

\* generate_work: partition_num and temp_path of every job
GenerateWork(n) ==
    [i \in 0..(n - 1) |-> [partition_num |-> i, temp_path |-> TempPath(i)]]

\* the file at path holds content
WriteFile(fs, path, content) ==
    [q \in (DOMAIN fs) \cup {path} |-> IF q = path THEN content ELSE fs[q]]

\* datawelder.cat.cat: the files of paths, concatenated in the order of paths
RECURSIVE Cat(_, _, _)
Cat(fs, n, i) == IF i >= n THEN <<>> ELSE fs[TempPath(i)] \o Cat(fs, n, i + 1)

JoinNumPartitions == FrameLen(jframes[1])

NoError == [kind |-> "none", job |-> None]

JoinStart ==
    /\ \E ns \in [1..2 -> 1..MaxPartitions] :
       \E ks \in [1..2 -> SUBSET (1..MaxKey)] :
          /\ jframes = [f \in 1..2 |-> PartitionedFrame(JoinFrameConfig(f - 1, ns[f]))]
          /\ jstores = [f \in 1..2 |->
                           [i \in 0..(ns[f] - 1) |-> JoinFrameShard(f - 1, ks[f], ns[f], i)]]
    /\ subs \in 1..MaxSubs
    /\ output_format \in {PICKLE, JSON, CSV}
    /\ fields = NoFields
    /\ jobs = <<>>
    /\ temp = <<>>
    /\ completed = <<>>
    /\ destination = <<>>
    /\ dest_written = FALSE
    /\ temp_dir = "none"
    /\ errors = <<>>
    /\ raised = NoError
    /\ dpc = "start"

JoinIdle ==
    /\ jframes = <<>>
    /\ jstores = <<>>
    /\ subs = 1
    /\ output_format = PICKLE
    /\ fields = NoFields
    /\ jobs = <<>>
    /\ temp = <<>>
    /\ completed = <<>>
    /\ destination = <<>>
    /\ dest_written = FALSE
    /\ temp_dir = "none"
    /\ errors = <<>>
    /\ raised = NoError
    /\ dpc = "idle"

\* the shard counts are not compared
ShardCountsUnchecked(frms) == TRUE

\* the asserts over the frames: each has the shard count of the first
ShardCountsEqual(frms) ==
    \A f \in 1..Len(frms) : FrameLen(frms[f]) = FrameLen(frms[1])

\* an assert over the frames fails: join() raises before it does anything
JoinAssertFails ==
    /\ dpc = "start"
    /\ ~ShardCountsEqual(jframes)
    /\ raised' = [kind |-> "AssertionError", job |-> None]
    /\ dpc' = "failed"
    /\ UNCHANGED <<jframes, jstores, subs, output_format, fields, jobs, temp,
                   completed, destination, dest_written, temp_dir, errors>>
    /\ UNCHANGED NotJoin

\* every frame has the shard count of the first; the temp directory is made
JoinBeginWork ==
    /\ dpc = "start"
    /\ ShardCountsEqual(jframes)
    /\ jobs' = [i \in 0..(JoinNumPartitions - 1) |-> "pending"]
    /\ temp' = <<>>
    /\ temp_dir' = "exists"
    /\ dpc' = IF subs = 1 THEN "sequential" ELSE "pool"
    /\ UNCHANGED <<jframes, jstores, subs, output_format, fields, completed,
                   destination, dest_written, errors, raised>>
    /\ UNCHANGED NotJoin

\* subs == 1: the next work item runs to its end in this process
RunSequential ==
    /\ dpc = "sequential"
    /\ \E i \in DOMAIN jobs :
          /\ jobs[i] = "pending"
          /\ \A j \in DOMAIN jobs : j < i => jobs[j] = "done"
          /\ LET work == GenerateWork(JoinNumPartitions)[i]
             IN temp' = WriteFile(temp, work.temp_path,
                                  JoinPartitions(work.partition_num, jframes, jstores,
                                                 output_format, fields))
          /\ jobs' = [jobs EXCEPT ![i] = "done"]
          /\ completed' = Append(completed, i)
    /\ UNCHANGED <<jframes, jstores, subs, output_format, fields, destination,
                   dest_written, temp_dir, errors, raised, dpc>>
    /\ UNCHANGED NotJoin

\* subs == 1: join_partitions raises in the loop; the exception leaves the
\* with block, which removes the temp directory, and join()
SequentialJobFails ==
    /\ dpc = "sequential"
    /\ \E i \in DOMAIN jobs :
          /\ jobs[i] = "pending"
          /\ \A j \in DOMAIN jobs : j < i => jobs[j] = "done"
          /\ jobs' = [jobs EXCEPT ![i] = "failed"]
          /\ errors' = Append(errors, i)
          /\ raised' = [kind |-> "JobError", job |-> i]
    /\ temp' = <<>>
    /\ temp_dir' = "removed"
    /\ dpc' = "failed"
    /\ UNCHANGED <<jframes, jstores, subs, output_format, fields, completed,
                   destination, dest_written>>
    /\ UNCHANGED NotJoin

RunningJobs == {i \in DOMAIN jobs : jobs[i] = "running"}

\* a free worker of the pool takes a work item and opens its output
PoolStartJob ==
    /\ dpc = "pool"
    /\ Cardinality(RunningJobs) < subs
    /\ \E i \in DOMAIN jobs :
          /\ jobs[i] = "pending"
          /\ jobs' = [jobs EXCEPT ![i] = "running"]
          /\ temp' = WriteFile(temp, GenerateWork(JoinNumPartitions)[i].temp_path, <<>>)
    /\ UNCHANGED <<jframes, jstores, subs, output_format, fields, completed,
                   destination, dest_written, temp_dir, errors, raised, dpc>>
    /\ UNCHANGED NotJoin

\* a running join_partitions job has written its output and returns
PoolFinishJob ==
    /\ dpc = "pool"
    /\ \E i \in RunningJobs :
          /\ LET work == GenerateWork(JoinNumPartitions)[i]
             IN temp' = WriteFile(temp, work.temp_path,
                                  JoinPartitions(work.partition_num, jframes, jstores,
                                                 output_format, fields))
          /\ jobs' = [jobs EXCEPT ![i] = "done"]
          /\ completed' = Append(completed, i)
    /\ UNCHANGED <<jframes, jstores, subs, output_format, fields, destination,
                   dest_written, temp_dir, errors, raised, dpc>>
    /\ UNCHANGED NotJoin

\* a running join_partitions job raises; its worker hands the exception to
\* the result of starmap and is free for the next work item
PoolJobFails ==
    /\ dpc = "pool"
    /\ \E i \in RunningJobs :
          /\ jobs' = [jobs EXCEPT ![i] = "failed"]
          /\ errors' = Append(errors, i)
    /\ UNCHANGED <<jframes, jstores, subs, output_format, fields, temp, completed,
                   destination, dest_written, temp_dir, raised, dpc>>
    /\ UNCHANGED NotJoin

\* pool.starmap raises the first exception its result received.  The result
\* becomes ready at the first failure or when every work item has ended,
\* depending on the interpreter; nothing in join() stops the pool before.
StarmapRaises ==
    /\ dpc = "pool"
    /\ errors # <<>>
    /\ raised' = [kind |-> "JobError", job |-> errors[1]]
    /\ temp' = <<>>
    /\ temp_dir' = "removed"
    /\ dpc' = "failed"
    /\ UNCHANGED <<jframes, jstores, subs, output_format, fields, jobs, completed,
                   destination, dest_written, errors>>
    /\ UNCHANGED NotJoin

\* the loop over the work items, or pool.starmap, has returned
AllJobsComplete == \A i \in DOMAIN jobs : jobs[i] = "done"

\* cat(temp_paths, destination), then the temp directory is removed
CatTempFiles ==
    /\ dpc \in {"sequential", "pool"}
    /\ AllJobsComplete
    /\ destination' = Cat(temp, JoinNumPartitions, 0)
    /\ dest_written' = TRUE
    /\ temp' = <<>>
    /\ temp_dir' = "removed"
    /\ dpc' = "done"
    /\ UNCHANGED <<jframes, jstores, subs, output_format, fields, jobs, completed,
                   errors, raised>>
    /\ UNCHANGED NotJoin

JoinNext ==
    \/ JoinAssertFails \/ JoinBeginWork
    \/ RunSequential \/ SequentialJobFails
    \/ PoolStartJob \/ PoolFinishJob \/ PoolJobFails \/ StarmapRaises
    \/ CatTempFiles

(***************************************************************************)
(* PartitionedFrame: select() and __getitem__                              *)
(***************************************************************************)
GFieldNames == <<"iso", "name", "area">>

\* the arguments of select(): lists of field names, of the frame or not
SelectPool == SeqsUpTo({"iso", "name", "area", "bogus"}, MaxSelect)

\* the arguments of frame[key]: ints, and an object that is no int
PyKeys ==
    {[kind |-> "int", n |-> i] : i \in (-2)..(MaxPartitions + 1)}
    \cup {[kind |-> "str", n |-> 0]}

NoCall == [made |-> FALSE, key |-> [kind |-> "int", n |-> 0]]
NoPart == [error |-> "", path |-> 0, field_indices |-> <<>>, field_names |-> <<>>,
           key_index |-> 0]

\* the records stored in shard file i of gframe, in the order of GFieldNames
GShard(i) == [r \in 1..2 |-> [f \in 1..3 |-> 100 * (i + 1) + 10 * r + f]]

\* PartitionedFrame.__getitem__: the isinstance test, then the int case
GetItemAny(fr, key) ==
    IF key.kind # "int"
    THEN [error |-> "ValueError", path |-> 0, field_indices |-> <<>>,
          field_names |-> <<>>, key_index |-> 0]
    ELSE GetItem(fr, key.n)

FrameStart ==
    /\ \E n \in 1..MaxPartitions, kidx \in 0..2 :
          gframe = PartitionedFrame([field_names |-> GFieldNames, key_index |-> kidx,
                                     num_partitions |-> n, config_format |-> 1])
    /\ gcall = NoCall
    /\ gpart = NoPart
    /\ gselect = ""
    /\ gpc = "ready"

FrameIdle ==
    /\ gframe = PartitionedFrame(NoManifest)
    /\ gcall = NoCall
    /\ gpart = NoPart
    /\ gselect = ""
    /\ gpc = "idle"

\* select(field_names) with the names of fields of the frame
FrameSelect ==
    /\ gpc = "ready"
    /\ \E names \in SelectPool :
          /\ \A n \in 1..Len(names) : names[n] \in Range(FrameFieldNames(gframe))
          /\ gframe' = [gframe EXCEPT !.selected_fields = names]
    /\ gselect' = "ok"
    /\ UNCHANGED <<gcall, gpart, gpc>>
    /\ UNCHANGED NotFrame

\* select(field_names) with a name the frame does not have
FrameSelectFails ==
    /\ gpc = "ready"
    /\ \E names \in SelectPool :
          \E n \in 1..Len(names) : names[n] \notin Range(FrameFieldNames(gframe))
    /\ gselect' = "ValueError"
    /\ UNCHANGED <<gframe, gcall, gpart, gpc>>
    /\ UNCHANGED NotFrame

\* gframe[key]
FrameGetItem ==
    /\ gpc = "ready"
    /\ \E key \in PyKeys :
          /\ gcall' = [made |-> TRUE, key |-> key]
          /\ gpart' = GetItemAny(gframe, key)
    /\ gpc' = "called"
    /\ UNCHANGED <<gframe, gselect>>
    /\ UNCHANGED NotFrame

FrameNext == FrameSelect \/ FrameSelectFails \/ FrameGetItem

(***************************************************************************)
(* main(): _select over the frame headers, then _calculate_indices         *)
(***************************************************************************)
\* the headers of the frames given to main()
HeaderSets ==
    {<<<<"foo", "bar">>, <<"baz", "foo">>>>,
     <<<<"foo", "bar">>, <<"baz", "boz">>>>}

\* what _parse_select yields for a clause "[FRAMENUM.]NAME [as ALIAS]":
\* _split_compound gives int(FRAMENUM), or None when there is no dot
\* (qualified is false); an absent alias is None (the empty string here)
ClausePool ==
    [qualified : BOOLEAN, framenum : (-1)..2, fieldname : {"foo", "bar", "baz", "nope"},
     alias : {"", "X"}]

Clauses == {c \in ClausePool : ~c.qualified => c.framenum = 0}

\* lut[fieldname]: the frame numbers, one for each header field of that name
Lut(headers, fieldname) ==
    Concat([f \in 1..Len(headers) |->
              [m \in 1..Cardinality({n \in 1..Len(headers[f]) : headers[f][n] = fieldname})
                  |-> f - 1]])

\* every unqualified name is taken from its first frame
IsAmbiguousNever(candidate_frames) == FALSE

\* len(candidate_frames) > 1
IsAmbiguous(candidate_frames) == Len(candidate_frames) > 1

Rejected(error) == [error |-> error, field |-> <<0, 0, "">>]

\* the body of the loop of _select for one clause: the exception it raises,
\* or the (framenum, fieldnum, alias) it appends
SelectField(headers, used, clause) ==
    LET candidate_frames == Lut(headers, clause.fieldname)
    IN IF candidate_frames = <<>> THEN Rejected("ValueError: unknown name")
       ELSE IF ~clause.qualified /\ IsAmbiguous(candidate_frames)
       THEN Rejected("ValueError: ambiguous name")
       ELSE LET framenum == IF clause.qualified THEN clause.framenum
                            ELSE candidate_frames[1]
                numframes == Len(headers)
            IN \* frame_headers[framenum], negative indices count from the end
               IF framenum >= numframes \/ framenum < -numframes
               THEN Rejected("IndexError")
               ELSE LET header == headers[(IF framenum < 0 THEN numframes + framenum
                                           ELSE framenum) + 1]
                    IN IF clause.fieldname \notin Range(header)
                       THEN Rejected("ValueError: not in list")
                       ELSE IF clause.alias # "" /\ clause.alias \in used
                       THEN Rejected("ValueError: non-unique alias")
                       ELSE [error |-> "",
                             field |-> <<framenum, IndexOf(header, clause.fieldname),
                                         IF clause.alias # "" THEN clause.alias
                                         ELSE IF clause.fieldname \notin used
                                         THEN clause.fieldname
                                         ELSE clause.fieldname \o "_" \o ToString(framenum)>>]

\* the frames of the given headers
HeaderFrames(headers) ==
    [f \in 1..Len(headers) |->
        PartitionedFrame([field_names |-> headers[f], key_index |-> 0,
                          num_partitions |-> 1, config_format |-> 1])]

NoLayout == [indices |-> <<>>, names |-> <<>>]

\* main() with --select (spc "select") or without it (spc "noselect")
SelectStart ==
    /\ frame_headers \in HeaderSets
    /\ squery = <<>>
    /\ selected = <<>>
    /\ used_aliases = {}
    /\ sraised = ""
    /\ sresult = NoFields
    /\ slayout = NoLayout
    /\ spc \in {"select", "noselect"}

SelectIdle ==
    /\ frame_headers = <<>>
    /\ squery = <<>>
    /\ selected = <<>>
    /\ used_aliases = {}
    /\ sraised = ""
    /\ sresult = NoFields
    /\ slayout = NoLayout
    /\ spc = "idle"

\* the next clause of the query is resolved and appended to selected
SelectClause ==
    /\ spc = "select"
    /\ Len(squery) < MaxClauses
    /\ \E clause \in Clauses :
          LET step == SelectField(frame_headers, used_aliases, clause)
          IN /\ step.error = ""
             /\ squery' = Append(squery, clause)
             /\ selected' = Append(selected, step.field)
             /\ used_aliases' = used_aliases \cup {step.field[3]}
    /\ UNCHANGED <<frame_headers, sraised, sresult, slayout, spc>>
    /\ UNCHANGED NotSelect

\* the next clause of the query makes _select raise
SelectRaises ==
    /\ spc = "select"
    /\ Len(squery) < MaxClauses
    /\ \E clause \in Clauses :
          LET step == SelectField(frame_headers, used_aliases, clause)
          IN /\ step.error # ""
             /\ squery' = Append(squery, clause)
             /\ sraised' = step.error
    /\ spc' = "raised"
    /\ UNCHANGED <<frame_headers, selected, used_aliases, sresult, slayout>>
    /\ UNCHANGED NotSelect

\* the query has no further clause: return selected
SelectReturn ==
    /\ spc = "select"
    /\ squery # <<>>
    /\ sresult' = selected
    /\ spc' = "returned"
    /\ UNCHANGED <<frame_headers, squery, selected, used_aliases, sraised, slayout>>
    /\ UNCHANGED NotSelect

\* joined_fields.index((framenum, fieldnum)) finds every selected field
FieldsJoined(headers, selected_fields) ==
    \A m \in 1..Len(selected_fields) :
        <<selected_fields[m][1], selected_fields[m][2]>>
            \in Range(JoinedFields(HeaderFrames(headers)))

\* join() computes the output layout of the fields main() hands it
CalculateIndicesCall ==
    /\ spc \in {"returned", "noselect"}
    /\ FieldsJoined(frame_headers, sresult)
    /\ slayout' = CalculateIndices(HeaderFrames(frame_headers), sresult)
    /\ spc' = "layout"
    /\ UNCHANGED <<frame_headers, squery, selected, used_aliases, sraised, sresult>>
    /\ UNCHANGED NotSelect

\* joined_fields.index raises for a selected field that is not a joined one
CalculateIndicesRaises ==
    /\ spc = "returned"
    /\ ~FieldsJoined(frame_headers, sresult)
    /\ sraised' = "ValueError: not in list"
    /\ spc' = "layout_raised"
    /\ UNCHANGED <<frame_headers, squery, selected, used_aliases, sresult, slayout>>
    /\ UNCHANGED NotSelect

SelectNext ==
    \/ SelectClause \/ SelectRaises \/ SelectReturn
    \/ CalculateIndicesCall \/ CalculateIndicesRaises

(***************************************************************************)
(* open_partitions: the soft limit and the sinks of one with block         *)
(***************************************************************************)
\* the limits of the process: soft limits below and above the requested
\* values, hard limits below and above them
Limits == {[soft |-> sl, hard |-> hl] : sl \in {20, 150}, hl \in {250, 1000}}

\* soft_limit = num_partitions * (10 if sys.platform == 'darwin' else 100)
RequestedLimit(platform, n) == n * (IF platform = "darwin" THEN 10 ELSE 100)

Max(a, b) == IF a >= b THEN a ELSE b
Min(a, b) == IF a <= b THEN a ELSE b

\* soft_limit = max(old_soft_limit, min(soft_limit, hard_limit))
NewSoftLimit(old, requested, hard) == Max(old, Min(requested, hard))

ScopeStart ==
    /\ oplatform \in {"darwin", "linux"}
    /\ onum \in 1..MaxPartitions
    /\ rlimit \in Limits
    /\ old_soft_limit = 0
    /\ soft_before = rlimit.soft
    /\ ostreams = <<>>
    /\ opc = "start"

ScopeIdle ==
    /\ oplatform = "linux"
    /\ onum = 1
    /\ rlimit = [soft |-> 0, hard |-> 0]
    /\ old_soft_limit = 0
    /\ soft_before = 0
    /\ ostreams = <<>>
    /\ opc = "idle"

\* with _update_soft_limit(soft_limit): getrlimit, setrlimit, yield
UpdateSoftLimit ==
    /\ opc = "start"
    /\ old_soft_limit' = rlimit.soft
    /\ rlimit' = [rlimit EXCEPT !.soft = NewSoftLimit(rlimit.soft,
                                                      RequestedLimit(oplatform, onum),
                                                      rlimit.hard)]
    /\ opc' = "opening"
    /\ UNCHANGED <<oplatform, onum, soft_before, ostreams>>
    /\ UNCHANGED NotScope

\* streams = [_open(path, mode=mode) ...]: the next sink is opened
OpenSink ==
    /\ opc = "opening"
    /\ Len(ostreams) < onum
    /\ ostreams' = Append(ostreams, "open")
    /\ UNCHANGED <<oplatform, onum, rlimit, old_soft_limit, soft_before, opc>>
    /\ UNCHANGED NotScope

\* _open raises for the next sink: the exception leaves the list
\* comprehension and both generators, neither of which catches it
OpenSinkFails ==
    /\ opc = "opening"
    /\ Len(ostreams) < onum
    /\ opc' = "raised"
    /\ UNCHANGED <<oplatform, onum, rlimit, old_soft_limit, soft_before, ostreams>>
    /\ UNCHANGED NotScope

\* yield streams: the body of the with block runs
YieldStreams ==
    /\ opc = "opening"
    /\ Len(ostreams) = onum
    /\ opc' = "body"
    /\ UNCHANGED <<oplatform, onum, rlimit, old_soft_limit, soft_before, ostreams>>
    /\ UNCHANGED NotScope

\* the body ends normally: open_partitions resumes after its yield
BodyReturns ==
    /\ opc = "body"
    /\ opc' = "closing"
    /\ UNCHANGED <<oplatform, onum, rlimit, old_soft_limit, soft_before, ostreams>>
    /\ UNCHANGED NotScope

\* the body raises: the exception is thrown into open_partitions at its
\* yield and into _update_soft_limit at its yield; there is no try around
\* either, so the code after them is not run
BodyRaises ==
    /\ opc = "body"
    /\ opc' = "raised"
    /\ UNCHANGED <<oplatform, onum, rlimit, old_soft_limit, soft_before, ostreams>>
    /\ UNCHANGED NotScope

\* for fin in streams: fin.close()
CloseSink ==
    /\ opc = "closing"
    /\ \E i \in 1..Len(ostreams) :
          /\ ostreams[i] = "open"
          /\ \A j \in 1..(i - 1) : ostreams[j] = "closed"
          /\ ostreams' = [ostreams EXCEPT ![i] = "closed"]
    /\ UNCHANGED <<oplatform, onum, rlimit, old_soft_limit, soft_before, opc>>
    /\ UNCHANGED NotScope

\* _update_soft_limit resumes after its yield: setrlimit(old_soft_limit)
RestoreSoftLimit ==
    /\ opc = "closing"
    /\ \A i \in 1..Len(ostreams) : ostreams[i] = "closed"
    /\ rlimit' = [rlimit EXCEPT !.soft = old_soft_limit]
    /\ opc' = "exited"
    /\ UNCHANGED <<oplatform, onum, old_soft_limit, soft_before, ostreams>>
    /\ UNCHANGED NotScope

ScopeNext ==
    \/ UpdateSoftLimit \/ OpenSink \/ OpenSinkFails \/ YieldStreams
    \/ BodyReturns \/ BodyRaises \/ CloseSink \/ RestoreSoftLimit

(***************************************************************************)
(* LightweightWriter: write, close, _upload_next_part, _retry_if_failed    *)
(* against an S3 that stores the parts of one multipart upload.            *)
(* MinPartSize stands for min_part_size, counted in bytes of the model.    *)
(***************************************************************************)
NoObject == [exists |-> FALSE, body |-> <<>>]

\* the ETag S3 returns for an uploaded part
ETagOf(part_num, body) == 10 * part_num + Len(body)

\* the body of the part S3 holds under a part number and ETag, if any
PartBody(parts, entry) ==
    LET having == {n \in 1..Len(parts) :
                      parts[n].num = entry[1] /\ parts[n].etag = entry[2]}
    IN IF having = {} THEN <<>>
       ELSE parts[CHOOSE n \in having : \A m \in having : m <= n].body

\* multipart_upload.complete: the parts named in the request, in its order
CompletedBody(parts, partinfo) ==
    Concat([n \in 1..Len(partinfo) |-> PartBody(parts, partinfo[n])])

\* every exception is retried
RetryableAny(exc) == TRUE

\* except exceptions: with the default (EndpointConnectionError, )
Retryable(exc) == exc = "EndpointConnectionError"

\* self._buf.seek(0); self._buf.truncate(0)
BufferAfterUpload(old) == <<>>

\* terminate() raises NotImplementedError
Terminate == "NotImplementedError"

\* the exception the caller gets for an exception raised in the writer:
\* in a with block __exit__ calls terminate() for an exception of the body
\* (a write() is part of the body); an exception of close() passes as it is
Surfaced(exc, in_close) ==
    IF wmode = "with" /\ ~in_close THEN Terminate ELSE exc

S3Start ==
    /\ wmode \in {"with", "plain"}
    /\ wbuf = <<>>
    /\ mpid = None
    /\ etags = <<>>
    /\ wclosed = FALSE
    /\ total_bytes = 0
    /\ total_parts = 0
    /\ s3_upload = "none"
    /\ s3_parts = <<>>
    /\ s3_partinfo = <<>>
    /\ s3_object = NoObject
    /\ written = <<>>
    /\ nwrites = 0
    /\ ncloses = 0
    /\ ucaller = ""
    /\ rcalls = <<>>
    /\ rstate = ""
    /\ woriginal = ""
    /\ wraised = ""
    /\ wpc = "open"

S3Idle ==
    /\ wmode = "plain"
    /\ wbuf = <<>>
    /\ mpid = None
    /\ etags = <<>>
    /\ wclosed = FALSE
    /\ total_bytes = 0
    /\ total_parts = 0
    /\ s3_upload = "none"
    /\ s3_parts = <<>>
    /\ s3_partinfo = <<>>
    /\ s3_object = NoObject
    /\ written = <<>>
    /\ nwrites = 0
    /\ ncloses = 0
    /\ ucaller = ""
    /\ rcalls = <<>>
    /\ rstate = ""
    /\ woriginal = ""
    /\ wraised = ""
    /\ wpc = "idle"

\* _upload_next_part up to the call of _retry_if_failed: the multipart
\* upload is initiated unless self._mpid is set
BeginUpload(caller) ==
    /\ mpid' = IF mpid = None THEN 1 ELSE mpid
    /\ s3_upload' = IF mpid = None THEN "in_progress" ELSE s3_upload
    /\ ucaller' = caller
    /\ rcalls' = <<>>
    /\ rstate' = "running"
    /\ wpc' = "uploading"

\* write(b): b goes to the buffer; a buffer of min_part_size is uploaded
WriterWriteCall ==
    /\ wpc = "open"
    /\ nwrites < MaxWrites
    /\ \E len \in 0..MaxChunk :
          LET b == [j \in 1..len |-> nwrites + 1]
          IN /\ wbuf' = wbuf \o b
             /\ written' = written \o b
             /\ total_bytes' = total_bytes + len
             /\ IF Len(wbuf) + len >= MinPartSize
                THEN BeginUpload("write")
                ELSE UNCHANGED <<mpid, s3_upload, ucaller, rcalls, rstate, wpc>>
    /\ nwrites' = nwrites + 1
    /\ UNCHANGED <<wmode, etags, wclosed, total_parts, s3_parts, s3_partinfo,
                   s3_object, ncloses, woriginal, wraised>>
    /\ UNCHANGED NotWriter

\* the body of the with block raises: __exit__ calls terminate()
WithBodyRaises ==
    /\ wmode = "with"
    /\ wpc = "open"
    /\ woriginal' = "BodyError"
    /\ wraised' = Surfaced("BodyError", FALSE)
    /\ wpc' = "raised"
    /\ UNCHANGED <<wmode, wbuf, mpid, etags, wclosed, total_bytes, total_parts,
                   s3_upload, s3_parts, s3_partinfo, s3_object, written, nwrites,
                   ncloses, ucaller, rcalls, rstate>>
    /\ UNCHANGED NotWriter

\* close(), called by __exit__ at the normal end of the with block or by
\* the user, who may call it again: return if closed, upload what the
\* buffer holds
CloseCall ==
    /\ \/ wpc = "open"
       \/ wpc = "closed" /\ wmode = "plain"
    /\ IF wclosed
       THEN /\ ncloses' = ncloses + 1
            /\ wpc' = "closed"
            /\ UNCHANGED <<mpid, s3_upload, ucaller, rcalls, rstate>>
       ELSE /\ UNCHANGED ncloses
            /\ IF wbuf # <<>>
               THEN BeginUpload("close")
               ELSE /\ wpc' = "completing"
                    /\ UNCHANGED <<mpid, s3_upload, ucaller, rcalls, rstate>>
    /\ UNCHANGED <<wmode, wbuf, etags, wclosed, total_bytes, total_parts, s3_parts,
                   s3_partinfo, s3_object, written, nwrites, woriginal, wraised>>
    /\ UNCHANGED NotWriter

\* partial() returns: the part is stored, its ETag recorded, the buffer
\* emptied, and _upload_next_part returns to write() or close()
UploadPartOk ==
    /\ wpc = "uploading"
    /\ Len(rcalls) < UPLOAD_ATTEMPTS
    /\ LET part_num == total_parts + 1
           etag == ETagOf(part_num, wbuf)
       IN /\ s3_parts' = Append(s3_parts, [num |-> part_num, etag |-> etag, body |-> wbuf])
          /\ etags' = Append(etags, etag)
    /\ total_parts' = total_parts + 1
    /\ wbuf' = BufferAfterUpload(wbuf)
    /\ rcalls' = Append(rcalls, "ok")
    /\ rstate' = "returned"
    /\ wpc' = IF ucaller = "write" THEN "open" ELSE "completing"
    /\ UNCHANGED <<wmode, mpid, wclosed, total_bytes, s3_upload, s3_partinfo,
                   s3_object, written, nwrites, ncloses, ucaller, woriginal, wraised>>
    /\ UNCHANGED NotWriter

\* partial() raises: an exception of the retried kind is logged and the
\* loop goes on after the sleep, any other leaves _retry_if_failed
UploadPartFails ==
    /\ wpc = "uploading"
    /\ Len(rcalls) < UPLOAD_ATTEMPTS
    /\ \E exc \in {"EndpointConnectionError", "ClientError"} :
          /\ rcalls' = Append(rcalls, exc)
          /\ IF Retryable(exc)
             THEN UNCHANGED <<rstate, woriginal, wraised, wpc>>
             ELSE /\ rstate' = exc
                  /\ woriginal' = exc
                  /\ wraised' = Surfaced(exc, ucaller = "close")
                  /\ wpc' = "raised"
    /\ UNCHANGED <<wmode, wbuf, mpid, etags, wclosed, total_bytes, total_parts,
                   s3_upload, s3_parts, s3_partinfo, s3_object, written, nwrites,
                   ncloses, ucaller>>
    /\ UNCHANGED NotWriter

\* the for loop ends without a return: raise IOError
RetryGivesUp ==
    /\ wpc = "uploading"
    /\ Len(rcalls) = UPLOAD_ATTEMPTS
    /\ rstate' = "IOError"
    /\ woriginal' = "IOError"
    /\ wraised' = Surfaced("IOError", ucaller = "close")
    /\ wpc' = "raised"
    /\ UNCHANGED <<wmode, wbuf, mpid, etags, wclosed, total_bytes, total_parts,
                   s3_upload, s3_parts, s3_partinfo, s3_object, written, nwrites,
                   ncloses, ucaller, rcalls>>
    /\ UNCHANGED NotWriter

\* close(): assert self._total_bytes > 0 or assert self._mpid is not None fails
CloseAssertFails ==
    /\ wpc = "completing"
    /\ total_bytes = 0 \/ mpid = None
    /\ woriginal' = IF woriginal = "" THEN "AssertionError" ELSE woriginal
    /\ wraised' = Surfaced("AssertionError", TRUE)
    /\ wpc' = "raised"
    /\ UNCHANGED <<wmode, wbuf, mpid, etags, wclosed, total_bytes, total_parts,
                   s3_upload, s3_parts, s3_partinfo, s3_object, written, nwrites,
                   ncloses, ucaller, rcalls, rstate>>
    /\ UNCHANGED NotWriter

\* close(): multipart_upload.complete with the recorded ETags numbered
\* from 1; then _mpid and _etags are reset
CompleteUpload ==
    /\ wpc = "completing"
    /\ total_bytes > 0
    /\ mpid # None
    /\ LET partinfo == [n \in 1..Len(etags) |-> <<n, etags[n]>>]
       IN /\ s3_partinfo' = partinfo
          /\ s3_object' = [exists |-> TRUE, body |-> CompletedBody(s3_parts, partinfo)]
    /\ s3_upload' = "completed"
    /\ mpid' = None
    /\ etags' = <<>>
    /\ ncloses' = ncloses + 1
    /\ wpc' = "closed"
    /\ UNCHANGED <<wmode, wbuf, wclosed, total_bytes, total_parts, s3_parts, written,
                   nwrites, ucaller, rcalls, rstate, woriginal, wraised>>
    /\ UNCHANGED NotWriter

S3Next ==
    \/ WriterWriteCall \/ WithBodyRaises \/ CloseCall
    \/ UploadPartOk \/ UploadPartFails \/ RetryGivesUp
    \/ CloseAssertFails \/ CompleteUpload

(***************************************************************************)
(* Claims on LightweightWriter and _retry_if_failed                        *)
(***************************************************************************)
\* a close() that followed the writes has ended, with every upload it or
\* the writes made having succeeded
CloseEnded ==
    \/ wpc = "closed"
    \/ wpc = "raised" /\ woriginal = "AssertionError" /\ ncloses = 0

\* what close() leaves in S3 when all that was written is stored: the
\* completed object is the written bytes, the parts are numbered 1..m in
\* upload order, the completion request lists one ETag per part in that
\* order, and the parts together are the written bytes, each byte once
StoredAsWritten ==
    /\ s3_upload = "completed"
    /\ s3_object = [exists |-> TRUE, body |-> written]
    /\ \A n \in 1..Len(s3_parts) : s3_parts[n].num = n
    /\ Len(s3_partinfo) = Len(s3_parts)
    /\ \A n \in 1..Len(s3_parts) : s3_partinfo[n] = <<n, s3_parts[n].etag>>
    /\ Concat([n \in 1..Len(s3_parts) |-> s3_parts[n].body]) = written

\* C22: after any sequence of write(b1), ..., write(bn) followed by close()
\* (or the normal exit of the with block) the multipart upload is completed
\* and the stored object is b1..bn: parts numbered 1..m in upload order,
\* one recorded ETag per part in that order, every byte in exactly one part.
C22_WritesStored == (CloseEnded /\ ncloses <= 1) => StoredAsWritten

\* C28: when the body of the with block raises, or a part upload fails with
\* a non-retryable error, the multipart upload is aborted (no upload in
\* progress, no completed object) and the original error is the one that
\* reaches the caller.
C28_AbortOnFailure ==
    (wpc = "raised" /\ woriginal \in {"BodyError", "ClientError", "IOError"})
        => /\ s3_upload # "in_progress"
           /\ ~s3_object.exists
           /\ wraised = woriginal

\* the calls _retry_if_failed has made so far, but the last, all failed
\* with a transient connection error
EarlierCallsTransient ==
    \A i \in 1..Len(rcalls) - 1 : rcalls[i] = "EndpointConnectionError"

LastCall == IF rcalls = <<>> THEN "" ELSE rcalls[Len(rcalls)]

\* C29: _retry_if_failed invokes the upload at most 10 times; a call is
\* followed by another only after a transient connection error; it has
\* returned exactly when the last call succeeded; any other exception
\* leaves it at once; and after 10 transient failures it raises IOError.
C29_RetryPolicy ==
    /\ [](/\ Len(rcalls) <= UPLOAD_ATTEMPTS
          /\ EarlierCallsTransient
          /\ (rstate = "returned") <=> (LastCall = "ok")
          /\ (rstate = "ClientError") <=> (LastCall = "ClientError")
          /\ (rstate = "IOError") =>
                 /\ Len(rcalls) = UPLOAD_ATTEMPTS
                 /\ LastCall = "EndpointConnectionError")
    /\ [][(/\ rstate = "running"
           /\ Len(rcalls) = UPLOAD_ATTEMPTS
           /\ LastCall = "EndpointConnectionError")
              => (rstate' = "IOError" /\ rcalls' = rcalls)]_vars

\* ten transient failures in a row have ended in IOError
C29_Witness ==
    /\ rstate = "IOError"
    /\ Len(rcalls) = UPLOAD_ATTEMPTS
    /\ EarlierCallsTransient

\* C30: close() is idempotent: after one successful close() the writer
\* reports closed, and a further close() returns without error and without
\* effect, whatever was written before the first close.
C30_CloseIdempotent ==
    ncloses >= 1 =>
        /\ wclosed
        /\ wpc = "closed"
        /\ wraised = ""
        /\ StoredAsWritten

(***************************************************************************)
(* Specifications                                                          *)
(***************************************************************************)
KernelInit == KernelStart /\ HashIdle /\ PartitionIdle /\ JoinIdle /\ FrameIdle /\ SelectIdle /\ ScopeIdle /\ S3Idle
HashInit == HashStart /\ KernelIdle /\ PartitionIdle /\ JoinIdle /\ FrameIdle /\ SelectIdle /\ ScopeIdle /\ S3Idle
PartitionInit == PartitionStart /\ KernelIdle /\ HashIdle /\ JoinIdle /\ FrameIdle /\ SelectIdle /\ ScopeIdle /\ S3Idle
JoinInit == JoinStart /\ KernelIdle /\ HashIdle /\ PartitionIdle /\ FrameIdle /\ SelectIdle /\ ScopeIdle /\ S3Idle
FrameInit ==
    FrameStart /\ KernelIdle /\ HashIdle /\ PartitionIdle /\ JoinIdle /\ SelectIdle
    /\ ScopeIdle /\ S3Idle
SelectInit ==
    SelectStart /\ KernelIdle /\ HashIdle /\ PartitionIdle /\ JoinIdle /\ FrameIdle
    /\ ScopeIdle /\ S3Idle
ScopeInit ==
    ScopeStart /\ KernelIdle /\ HashIdle /\ PartitionIdle /\ JoinIdle /\ FrameIdle
    /\ SelectIdle /\ S3Idle
S3Init ==
    S3Start /\ KernelIdle /\ HashIdle /\ PartitionIdle /\ JoinIdle /\ FrameIdle
    /\ SelectIdle /\ ScopeIdle

SpecKernel == KernelInit /\ [][KernelNext]_vars
SpecHash == HashInit /\ [][HashNext]_vars
SpecPartition == PartitionInit /\ [][PartitionNext]_vars
SpecJoin == JoinInit /\ [][JoinNext]_vars
SpecFrame == FrameInit /\ [][FrameNext]_vars
SpecSelect == SelectInit /\ [][SelectNext]_vars
SpecScope == ScopeInit /\ [][ScopeNext]_vars
SpecS3 == S3Init /\ [][S3Next]_vars
(***************************************************************************)
(* Properties of the merge-join kernel                                     *)
(***************************************************************************)
Width(p) == Len(p.field_names)

RECURSIVE SumWidths(_)
SumWidths(ps) == IF ps = <<>> THEN 0 ELSE Width(Head(ps)) + SumWidths(Tail(ps))

\* first column (0-based) of the contribution of right side j (1-based)
Offset(j) == Width(Head(partitions)) + SumWidths(SubSeq(Tail(partitions), 1, j - 1))

AllSorted == \A n \in 1..Len(partitions) : IsSorted(KeysOf(partitions[n]))

\* the columns of right side j in a row
Segment(row, j) ==
    SubSeq(row, Offset(j) + 1, Offset(j) + Width(partitions[j + 1]))

LeftColumns(row) == SubSeq(row, 1, Width(Head(partitions)))

\* C1: for sorted inputs the emitted rows, cut down to the left side's
\* columns, are exactly the left records, one row per left record in left
\* order, for every number of right sides.
C1_LeftPreservation ==
    (jpc = "done" /\ AllSorted) =>
        [n \in 1..Len(out) |-> LeftColumns(out[n])] = Head(partitions).records

\* C2: in every emitted row the contribution of each right side is a run of
\* nulls or a record of that side whose key equals the row's left key.
C2_KeyEquality ==
    AllSorted =>
        \A n \in 1..Len(out) :
        \A j \in 1..(Len(partitions) - 1) :
            Len(out[n]) >= Offset(j) + Width(partitions[j + 1]) =>
                LET seg == Segment(out[n], j)
                    rp == partitions[j + 1]
                IN \/ seg = mkdefault(rp)
                   \/ /\ seg \in Range(rp.records)
                      /\ KeyOf(rp, seg) = KeyOf(Head(partitions), LeftColumns(out[n]))

\* C3: every emitted row has the full width |L.fields| + sum |Rj.fields|.
C3_RowWidth ==
    AllSorted =>
        \A n \in 1..Len(out) : Len(out[n]) = SumWidths(partitions)

(***************************************************************************)
(* Properties of calculate_key                                             *)
(***************************************************************************)
\* C7: every returned shard number lies in [0, N), and two calls whose keys
\* have the same string form return the same shard number, so an int key and
\* its decimal string land in the same shard.
C7_HashStable ==
    /\ \A a \in 1..Len(hresults) : hresults[a] \in 0..(hn - 1)
    /\ \A a, b \in 1..Len(hresults) :
          Str(hkeys[a]) = Str(hkeys[b]) => hresults[a] = hresults[b]

\* an int key and its decimal string have both been hashed into 1000 shards
\* and gave the shard of the repository's test
C7_Witness ==
    /\ hkeys = <<PyInt(123), PyStr(<<49, 50, 51>>)>>
    /\ hn = 1000
    /\ hresults = <<808, 808>>

(***************************************************************************)
(* Properties of partition()                                               *)
(***************************************************************************)
Count(r, seq) == Cardinality({n \in 1..Len(seq) : seq[n] = r})

\* the record has the key field and its key is not None
Usable(r) == Len(r) > reader.key_index /\ r[reader.key_index + 1] # None

UsableRecords == SelectSeq(reader.records, Usable)

\* the shard contents in shard order, as frame[i] yields them
RECURSIVE ShardsFrom(_)
ShardsFrom(i) ==
    IF i >= FrameLen(frame) THEN <<>>
    ELSE IterPartition(GetItem(frame, i), files[i]) \o ShardsFrom(i + 1)

\* C4: when partition() has returned, every record with a usable key is in
\* the shard calculate_key gives for its key as often as it was read, and in
\* no other shard; no shard holds a record of another shard.
C4_PartitionComplete ==
    ppc = "done" =>
        /\ \A i \in ShardNumbers : \A n \in 1..Len(files[i]) :
              calculate_key(PyInt(files[i][n][reader.key_index + 1]), num_partitions) = i
        /\ \A r \in Range(UsableRecords) : \A i \in ShardNumbers :
              Count(r, files[i]) =
                  IF i = calculate_key(PyInt(r[reader.key_index + 1]), num_partitions)
                  THEN Count(r, reader.records) ELSE 0

\* partition() has returned and left records in two different shards
C4_Witness ==
    /\ ppc = "done"
    /\ \E i, j \in ShardNumbers : i # j /\ files[i] # <<>> /\ files[j] # <<>>

\* C5: when partition() has returned, every shard file is in non-decreasing
\* order of the field at the manifest's key_index.
C5_ShardsSorted ==
    ppc = "done" =>
        \A i \in ShardNumbers :
            IsSorted([n \in 1..Len(files[i]) |-> files[i][n][manifest.key_index + 1]])

\* partition() has returned and a shard holds two records that the reader
\* yielded in descending key order
C5_Witness ==
    /\ ppc = "done"
    /\ \E a, b \in 1..Len(reader.records) :
          /\ a < b
          /\ Usable(reader.records[a]) /\ Usable(reader.records[b])
          /\ reader.records[a][reader.key_index + 1] > reader.records[b][reader.key_index + 1]
          /\ \E i \in ShardNumbers : {reader.records[a], reader.records[b]} \subseteq Range(files[i])

C8_BadKeySkipped ==
    /\ (rd_pos > 0 /\ ~Usable(reader.records[rd_pos])) => ppc # "aborted"
    /\ ppc = "loop" =>
          \A r \in Range(SubSeq(reader.records, 1, rd_pos)) :
              Usable(r) => \E i \in ShardNumbers : r \in Range(files[i])

(***************************************************************************)
(* Properties of join()                                                    *)
(***************************************************************************)
\* the bytes of a file: its chunks without the number of the writing job
Bytes(content) ==
    [m \in 1..Len(content) |->
        [kind |-> content[m].kind, names |-> content[m].names, values |-> content[m].values]]

\* the output of the jobs 0..N-1 of the given frames, one after the other
RECURSIVE OutputFrom(_)
OutputFrom(i) ==
    IF i >= JoinNumPartitions THEN <<>>
    ELSE JoinPartitions(i, jframes, jstores, output_format, fields) \o OutputFrom(i + 1)

\* C9: the bytes join() leaves in the destination are those of the jobs
\* 0..N-1 run one after the other: they depend on the frames, the format and
\* the selection only, not on the worker count nor on the order in which the
\* jobs start and return.
C9_Deterministic ==
    dpc = "done" => Bytes(destination) = Bytes(OutputFrom(0))

\* a pool of several workers whose jobs returned out of shard order has
\* written a destination that is not empty
C9_Witness ==
    /\ dpc = "done"
    /\ subs > 1
    /\ destination # <<>>
    /\ \E a, b \in 1..Len(completed) : a < b /\ completed[a] > completed[b]

\* C10: the destination is written only when every job has returned, and in
\* it no chunk of a shard comes after a chunk of a higher shard.
C10_ShardOrder ==
    dest_written =>
        /\ \A i \in DOMAIN jobs : jobs[i] = "done"
        /\ \A a, b \in 1..Len(destination) :
              a < b => destination[a].shard <= destination[b].shard

\* the job of the last shard returned first, and the destination holds
\* chunks of it and of an earlier shard
C10_Witness ==
    /\ dest_written
    /\ Len(completed) > 1
    /\ completed[1] = JoinNumPartitions - 1
    /\ \E a, b \in 1..Len(destination) :
          destination[a].shard < destination[b].shard
          /\ destination[b].shard = JoinNumPartitions - 1

SomeJobFailed == errors # <<>>

\* C11: a failed job aborts join(): once a job has failed no pending job is
\* started, the destination is never written, and the exception join() raises
\* is that of the first job that failed.
C11_FailureAborts ==
    [][/\ SomeJobFailed =>
              \A i \in DOMAIN jobs : jobs[i] = "pending" => jobs'[i] = "pending"
       /\ SomeJobFailed' => ~dest_written'
       /\ (SomeJobFailed' /\ dpc' = "failed") =>
              raised' = [kind |-> "JobError", job |-> errors'[1]]]_vars

ShardCountMismatch ==
    dpc # "idle" /\ \E f \in 1..Len(jframes) : FrameLen(jframes[f]) # FrameLen(jframes[1])

\* C12: with frames of unequal shard counts join() does no work: no temp
\* directory is made, no work item exists or runs, nothing is written, and
\* the only step it takes is to raise.
C12_MismatchFailsFirst ==
    ShardCountMismatch =>
        /\ temp_dir = "none"
        /\ jobs = <<>>
        /\ temp = <<>>
        /\ ~dest_written
        /\ destination = <<>>
        /\ dpc \in {"start", "failed"}

\* join() has raised on frames of unequal shard counts
C12_Witness ==
    /\ ShardCountMismatch
    /\ dpc = "failed"
    /\ raised.kind = "AssertionError"

(***************************************************************************)
(* Properties of PartitionedFrame                                          *)
(***************************************************************************)
KeyInRange(key) == key.kind = "int" /\ 0 <= key.n /\ key.n < FrameLen(gframe)

\* C13: gframe[i] raises ValueError for every i that is no int of 0..N-1 (a
\* non-integer, an i >= N, a negative i) and returns a shard for the others.
C13_GetItemRange ==
    gcall.made => (gpart.error = "ValueError" <=> ~KeyInRange(gcall.key))

\* C14: the shard returned by gframe[i] under a projection has the key field
\* among its names, put first when the projection omits it; its key_index is
\* the position of the key in these names; field_indices has one entry per
\* name; and each record it yields has at key_index the key value of the
\* stored record.
C14_ProjectionKeepsKey ==
    (gcall.made /\ KeyInRange(gcall.key)) =>
        LET kn == FrameKeyName(gframe)
            names == gpart.field_names
            stored == GShard(gcall.key.n)
            yielded == IterPartition(gpart, stored)
        IN /\ kn \in Range(names)
           /\ names = IF kn \in Range(gframe.selected_fields) THEN gframe.selected_fields
                      ELSE <<kn>> \o gframe.selected_fields
           /\ gpart.key_index < Len(names)
           /\ names[gpart.key_index + 1] = kn
           /\ Len(gpart.field_indices) = Len(names)
           /\ \A n \in 1..Len(stored) :
                 yielded[n][gpart.key_index + 1] = stored[n][FrameKeyIndex(gframe) + 1]

\* a shard was taken under a projection set with select() that omits the
\* key, which is not the first stored field
C14_Witness ==
    /\ gcall.made
    /\ KeyInRange(gcall.key)
    /\ gselect = "ok"
    /\ gframe.selected_fields # <<>>
    /\ FrameKeyName(gframe) \notin Range(gframe.selected_fields)
    /\ FrameKeyIndex(gframe) > 0
    /\ gpart.field_names[1] = FrameKeyName(gframe)

(***************************************************************************)
(* Sort violations in the kernel                                           *)
(***************************************************************************)
\* the left record just taken has a smaller key than the one before it
LeftOutOfOrder ==
    /\ lpos >= 2
    /\ KeysOf(leftpart)[lpos] < KeysOf(leftpart)[lpos - 1]

\* C15: when the left side hands over a record whose key is smaller than
\* that of the preceding left record, the kernel has stopped with a
\* sort-violation error: it is not in its loops and it emits no further row.
C15_LeftSortViolation ==
    LeftOutOfOrder => jpc = "error"

\* right side i has handed over, as a new peek, a record whose key is
\* smaller than that of the peek before it
RightOutOfOrder(i) ==
    \E n \in 2..rpos[i] :
        KeysOf(rightparts[i])[n] < KeysOf(rightparts[i])[n - 1]

\* C16: when advancing the peek of a right side yields a record whose key is
\* smaller than that of the previous peek of that side, the kernel has
\* stopped with a sort-violation error.
C16_RightSortViolation ==
    \A i \in 1..Len(rpos) : RightOutOfOrder(i) => jpc = "error"

(***************************************************************************)
(* Properties of _select and _calculate_indices                            *)
(***************************************************************************)
\* C17: the output names of a selection _select returns are pairwise
\* distinct: no clause is given a name an earlier clause already has.
C17_DistinctNames ==
    spc = "returned" =>
        \A a, b \in 1..Len(sresult) : a # b => sresult[a][3] # sresult[b][3]

\* the clause names a frame 0..numframes-1 and a field of that frame
QualifiedValid(clause) ==
    /\ 0 <= clause.framenum
    /\ clause.framenum < Len(frame_headers)
    /\ clause.fieldname \in Range(frame_headers[clause.framenum + 1])

\* the frames whose schema has the name
FramesWith(fieldname) ==
    {f \in 0..(Len(frame_headers) - 1) : fieldname \in Range(frame_headers[f + 1])}

\* clause n of the query was accepted: it has its entry in selected
Accepted(n) == n <= Len(selected)

\* C18: a clause _select accepts has a NAME that some frame has, and if it
\* is qualified its FRAMENUM is one of 0..numframes-1, NAME is a field of
\* that frame and the entry selected is that frame and that field; when
\* _select raises it returns no field.
C18_QualifiedValidated ==
    /\ \A n \in 1..Len(squery) :
          Accepted(n) =>
              /\ FramesWith(squery[n].fieldname) # {}
              /\ squery[n].qualified =>
                    /\ QualifiedValid(squery[n])
                    /\ selected[n][1] = squery[n].framenum
                    /\ selected[n][2] =
                          IndexOf(frame_headers[squery[n].framenum + 1], squery[n].fieldname)
    /\ spc = "raised" => sresult = NoFields

\* C19: an unqualified NAME that exactly one frame has is resolved to that
\* frame and its field there (unless its alias is refused as repeated); an
\* unqualified NAME that two or more frames have is never accepted: _select
\* raises the ambiguity error and returns no field.
C19_UnqualifiedResolution ==
    \A n \in 1..Len(squery) :
        ~squery[n].qualified =>
            LET frames == FramesWith(squery[n].fieldname)
            IN /\ Cardinality(frames) = 1 =>
                     IF Accepted(n)
                     THEN /\ selected[n][1] \in frames
                          /\ selected[n][2] =
                                IndexOf(frame_headers[selected[n][1] + 1], squery[n].fieldname)
                     ELSE sraised = "ValueError: non-unique alias"
               /\ Cardinality(frames) >= 2 =>
                     /\ ~Accepted(n)
                     /\ spc = "raised"
                     /\ sraised = "ValueError: ambiguous name"
                     /\ sresult = NoFields

\* an unqualified name of the second frame only was resolved to it, and
\* then an unqualified name that both frames have raised the ambiguity error
C19_Witness ==
    /\ Len(squery) = 2
    /\ ~squery[1].qualified
    /\ selected = <<<<1, 0, "baz">>>>
    /\ ~squery[2].qualified
    /\ Cardinality(FramesWith(squery[2].fieldname)) = 2
    /\ sraised = "ValueError: ambiguous name"

\* the field names of all frames, in frame order
AllFieldNames == Concat(frame_headers)

\* C20: with no selection expression the layout is every field of every
\* frame in frame order, the index map is the identity, a name that a single
\* frame has is kept as it is and only a name that several frames have gets
\* the suffix _FRAMENUM.
C20_DefaultLayout ==
    (spc = "layout" /\ squery = <<>>) =>
        /\ slayout.indices = [m \in 1..Len(AllFieldNames) |-> m - 1]
        /\ Len(slayout.names) = Len(AllFieldNames)
        /\ \A m \in 1..Len(AllFieldNames) :
              slayout.names[m] =
                  IF Cardinality(FramesWith(AllFieldNames[m])) = 1
                  THEN AllFieldNames[m]
                  ELSE AllFieldNames[m] \o "_"
                       \o ToString(JoinedFields(HeaderFrames(frame_headers))[m][1])

(***************************************************************************)
(* The CSV header                                                          *)
(***************************************************************************)
HeaderRows(content) == {m \in 1..Len(content) : content[m].kind = "header"}

\* C21: with CSV output and the header enabled, the temp file of shard 0
\* begins with the header row, the temp file of a shard >= 1 holds none, and
\* the destination holds the header exactly once, as its first row.
C21_HeaderOnce ==
    output_format = CSV =>
        /\ \A i \in DOMAIN temp :
              jobs[i] = "done" =>
                  HeaderRows(temp[i]) = IF i = 0 THEN {1} ELSE {}
        /\ dest_written =>
              /\ HeaderRows(destination) = {1}
              /\ destination[1].shard = 0

\* a CSV join of several shards has written a destination that holds rows
\* of a shard other than 0
C21_Witness ==
    /\ output_format = CSV
    /\ dest_written
    /\ JoinNumPartitions >= 2
    /\ \E m \in 1..Len(destination) :
          destination[m].shard >= 1 /\ destination[m].kind = "CsvWriter"

(***************************************************************************)
(* Equal keys in the kernel                                                *)
(***************************************************************************)
\* the positions of the records of right side i that a step has advanced past
AdvancedPast(i) ==
    IF peek[i] = NoRecord \/ (peek'[i] = peek[i] /\ rpos'[i] = rpos[i]) THEN {}
    ELSE rpos[i]..(IF peek'[i] = NoRecord THEN rpos'[i] ELSE rpos'[i] - 1)

\* the first record of right side i with the given key
FirstWithKey(i, key) ==
    LET keys == KeysOf(rightparts[i])
        n == CHOOSE n \in 1..Len(keys) :
                 keys[n] = key /\ \A m \in 1..(n - 1) : keys[m] # key
    IN rightparts[i].records[n]

\* C23: a right peek is advanced only past records whose key is strictly
\* smaller than the current left key, never past one with an equal key; and
\* for sorted inputs, whenever a right side holds a record with the current
\* left key, the left record is joined with the first such record, the same
\* one for every left record of that key.
C23_EqualKeyNotAdvanced ==
    [][jpc = "inner" =>
          /\ \A i \in 1..Len(rightparts) :
                \A n \in AdvancedPast(i) : KeysOf(rightparts[i])[n] < leftkey
          /\ (AllSorted /\ leftkey \in Range(KeysOf(rightparts[ri + 1]))) =>
                joinedrecord' = joinedrecord \o FirstWithKey(ri + 1, leftkey)]_vars

\* the second of two consecutive left records of one key has been joined
\* with a right record of that key, on sorted inputs
C23_Witness ==
    /\ AllSorted
    /\ jpc = "loop"
    /\ lpos >= 2
    /\ KeysOf(leftpart)[lpos] = KeysOf(leftpart)[lpos - 1]
    /\ \E i \in 1..Len(rightparts) :
          /\ peek[i] # NoRecord
          /\ KeyOf(rightparts[i], peek[i]) = leftkey
          /\ rpos[i] >= 2

(***************************************************************************)
(* The manifest and the rewriting of the shards                            *)
(***************************************************************************)
\* the records the loop of partition() dumps to shard i, in reader order
WrittenTo(i) ==
    SelectSeq(reader.records,
              LAMBDA r : Usable(r) /\ ShardOf(r[reader.key_index + 1], num_partitions) = i)

\* C24: whenever the manifest exists every shard file 0..N-1 exists, its
\* sink is closed and it holds all of its records; a run that an error in
\* the loop aborts writes no manifest.
C24_ManifestLast ==
    /\ manifest # NoManifest =>
          \A i \in ShardNumbers :
              /\ i \in DOMAIN files
              /\ streams[i] = "closed"
              /\ Len(files[i]) = Len(WrittenTo(i))
    /\ ppc = "aborted" => manifest = NoManifest

\* C25: while the shards are sorted, the path of every shard holds either
\* all its records as the loop wrote them or all its records sorted, never
\* an empty or partial file.
C25_SortAtomic ==
    ppc \in {"sort", "sorting"} =>
        \A i \in ShardNumbers :
            \/ files[i] = WrittenTo(i)
            \/ files[i] = Sorted(WrittenTo(i), reader.key_index)

(***************************************************************************)
(* Properties of the open_partitions scope                                 *)
(***************************************************************************)
ScopeEnded == opc \in {"exited", "raised"}

\* C26: when the open_partitions scope has ended, normally, by an exception
\* of the body or by a failure to open a later sink, no sink that was
\* opened is still open.
C26_SinksClosed ==
    ScopeEnded => \A i \in 1..Len(ostreams) : ostreams[i] = "closed"

\* C27: inside the scope the soft limit is max(old, min(N*100 or N*10,
\* hard)), not below the old soft limit and not above the hard limit; when
\* the scope has ended, normally or by an error, it is the old soft limit.
C27_SoftLimitScoped ==
    /\ opc \in {"opening", "body", "closing"} =>
          /\ rlimit.soft = Max(soft_before,
                               Min(RequestedLimit(oplatform, onum), rlimit.hard))
          /\ rlimit.soft >= soft_before
          /\ rlimit.soft <= rlimit.hard
    /\ ScopeEnded => rlimit.soft = soft_before

====
